---- MODULE Spec2Model ----
(***************************************************************************)
(* Price-history cache (services/market_data.py) and scoring pipeline      *)
(* (ml/agent.py) of the fin-dash backend, over the prices table            *)
(* (db/models.py).                                                         *)
(*                                                                         *)
(* Time is counted in whole days since 1980-01-01T00:00Z.  A bar's open,   *)
(* high, low, close and volume are carried as one abstract value `val`.    *)
(* The prices table is a bag of rows, so that two rows with the same       *)
(* (symbol, ts) are representable and uniqueness is something the table's  *)
(* constraint has to enforce.                                              *)
(***************************************************************************)
EXTENDS Integers, Sequences, FiniteSets, Bags, TLC

VARIABLES
    store,      \* the committed rows of table "prices": a bag of [symbol, ts, val]
    now,        \* the wall clock, in days since 1980-01-01
    pc,         \* per request slot: where its handler stands
    req,        \* per request slot: the call being served
    hist,       \* per request slot: the frame fetched from the provider
    todo,       \* per request slot: Price objects of to_insert not yet visited
    pending,    \* per request slot: Price objects added to the session, not committed
    df,         \* per request slot: the frame _ensure_history holds
    result,     \* per request slot: what the last call returned or raised
    provCalls,  \* per request slot: provider invocations made by the current call
    readStore,  \* per request slot: the current call has queried table prices
    wrote,      \* per request slot: rows the current call has committed
    store0,     \* per request slot: the table as it was when the call began
    lastOut,    \* per request slot: how the provider answered the current call
    payload,    \* per request slot: prob_up, regime and recommendation of a score
    listed,     \* daily bars the provider holds for the symbol (its full history)
    nreq        \* calls begun so far

vars == <<store, now, pc, req, hist, todo, pending, df, result, provCalls,
          readStore, wrote, store0, lastOut, payload, listed, nreq>>

----------------------------------------------------------------------------
(* Bounds of the model *)

Now0 == 2000          \* the clock when the model starts
MaxTicks == 1         \* days the clock may advance
MaxVal == 2           \* distinct OHLCV values the provider may report for a bar
MaxRequests == 2      \* calls begun in one behaviour

Procs == {"r1", "r2"}
RawSymbols == {"aapl"}
Intervals == {"1d", "1wk", "1mo"}
RangeTokens == {"1mo", "3mo", "6mo", "1y", "2y", "5y", "max"}
RequestRanges == {"1mo", "max"}
FirstOffsets == {0, 2, 3}   \* provider's earliest bar, in days after start
MalformedOffsets == {0}     \* the same, of a frame with a malformed bar
SmallListings == {0, 2}     \* provider's full history, in bars
ConcurrentRanges == {"1mo"}
ConcurrentIntervals == {"1d", "1wk"}
HistorySizes == {150, 199, 200, 219, 220, 248, 249, 259, 260, 300, 478, 479, 520}
StoredSizes == {0, 150, 200, 260}
ProbCents == {38, 39, 40, 41, 42, 43, 50, 57, 58, 59, 60, 61}

----------------------------------------------------------------------------
(* market_data.py: _range_to_start *)

Epoch1980 == 0
Days1mo == 31
Days3mo == 93
Days6mo == 186
Days1y == 372
Days2y == 744
Days5y == 1860

range_table(n) ==
    [t \in RangeTokens |->
        CASE t = "1mo" -> n - Days1mo
          [] t = "3mo" -> n - Days3mo
          [] t = "6mo" -> n - Days6mo
          [] t = "1y"  -> n - Days1y
          [] t = "2y"  -> n - Days2y
          [] t = "5y"  -> n - Days5y
          [] t = "max" -> Epoch1980]

range_to_start(range_, n) ==
    IF range_ \in DOMAIN range_table(n) THEN range_table(n)[range_] ELSE n - Days1y

----------------------------------------------------------------------------
(* db/models.py: table prices *)

Row(sym, bar) == [symbol |-> sym, ts |-> bar.ts, val |-> bar.val]

SameKey(a, b) == a.symbol = b.symbol /\ a.ts = b.ts

\* the table without its unique constraint
uq_prices_symbol_ts_absent(st, r) == TRUE

\* uq_prices_symbol_ts: the table admits row r only if no row has its key.
uq_prices_symbol_ts(st, r) == \A x \in BagToSet(st) : ~SameKey(x, r)

\* rows of table st with the key (sym, ts), counted with multiplicity
RowCount(st, sym, ts) ==
    BagCardinality([x \in {y \in BagToSet(st) : y.symbol = sym /\ y.ts = ts} |-> st[x]])

Upper(s) == CASE s = "aapl" -> "AAPL" [] OTHER -> s

MinTs(rows) == CHOOSE t \in {r.ts : r \in rows} : \A r \in rows : t <= r.ts

----------------------------------------------------------------------------
(* The provider (yfinance): what Ticker.history may answer *)

\* What a cell of open, high, low, close may hold besides a number (the
\* numbers are 1..MaxVal): NaN, None, or text that float() cannot parse.
NaNVal == 0
NoneVal == -1
TextVal == -2
MalformedVals == {NaNVal, NoneVal, TextVal}

ProviderSeries(start, n) ==
    {{}} \cup
    { {[ts |-> start + f, val |-> v], [ts |-> n, val |-> v]} :
        f \in FirstOffsets, v \in 1..MaxVal }

\* frames whose first bar holds a malformed value and whose last bar a number
MalformedSeries(start, n) ==
    { {[ts |-> start + f, val |-> k], [ts |-> n, val |-> 1]} :
        f \in MalformedOffsets, k \in MalformedVals }

OutcomeKind(out) ==
    IF out.kind = "throws" THEN "throws"
    ELSE IF out.bars = {} THEN "empty"
    ELSE IF \E b \in out.bars : b.val \in MalformedVals THEN "malformed"
    ELSE "frame"

ProviderOutcomes(start, n) ==
    {[kind |-> "frame", bars |-> b] :
        b \in ProviderSeries(start, n) \cup MalformedSeries(start, n)}
    \cup {[kind |-> "throws", bars |-> {}]}

\* float(x): None raises TypeError, unparsable text ValueError; NaN is a float
float_(v) ==
    CASE v = NoneVal -> "TypeError"
      [] v = TextVal -> "ValueError"
      [] OTHER -> "ok"

\* pd.notna(x)
notna(v) == v \notin {NaNVal, NoneVal}

\* float() over the rows of a frame in timestamp order, as market_data.py
\* applies it (lines 97-100 and 120-123): the first exception, or "ok"
float_rows(bars) ==
    LET bad == {b \in bars : float_(b.val) # "ok"}
    IN  IF bad = {} THEN "ok"
        ELSE float_((CHOOSE b \in bad : \A c \in bad : b.ts <= c.ts).val)

----------------------------------------------------------------------------
(* market_data.py: get_prices *)

CacheToleranceDays == 2

\* the table is consulted for every interval
use_cache_any_interval(interval) == interval \in Intervals

use_cache(interval) == interval = "1d"

cached(st, sym, start) == {r \in BagToSet(st) : r.symbol = sym /\ r.ts >= start}

\* the earliest cached bar must not lie after start
cache_covers_no_tolerance(rows, start) ==
    rows # {} /\ MinTs(rows) <= start

\* a tolerance of three days
cache_covers_three_days(rows, start) ==
    rows # {} /\ MinTs(rows) <= start + CacheToleranceDays + 1

cache_covers(rows, start) ==
    rows # {} /\ MinTs(rows) <= start + CacheToleranceDays

NoPayload == [prob |-> [c |-> 0, e |-> 0], regime |-> "-", rec |-> "-"]
NoResult == [status |-> "none", source |-> "-", error |-> "-", series |-> {}]
Returned(src, series) ==
    [status |-> "ok", source |-> src, error |-> "-", series |-> series]
Raised(err) == [status |-> "error", source |-> "-", error |-> err, series |-> {}]

Bars(rows) == {[ts |-> r.ts, val |-> r.val] : r \in rows}

\* lines 43-72: normalise, compute start, consult the table for daily requests
get_prices_begin(p, symbol, range_, interval) ==
    /\ pc[p] \in {"idle", "done"}
    /\ nreq < MaxRequests
    /\ nreq' = nreq + 1
    /\ LET sym   == Upper(symbol)
           start == range_to_start(range_, now)
           rows  == IF use_cache(interval) THEN cached(store, sym, start) ELSE {}
           hit   == use_cache(interval) /\ cache_covers(rows, start)
       IN  /\ req' = [req EXCEPT ![p] = [op |-> "get_prices", symbol |-> sym,
                                         range |-> range_, interval |-> interval,
                                         mode |-> "-", start |-> start]]
           /\ readStore' = [readStore EXCEPT ![p] = use_cache(interval)]
           /\ pc' = [pc EXCEPT ![p] = IF hit THEN "done" ELSE "gp_fetch"]
           /\ result' = [result EXCEPT ![p] =
                            IF hit THEN Returned("db", Bars(rows)) ELSE NoResult]
    /\ provCalls' = [provCalls EXCEPT ![p] = 0]
    /\ wrote' = [wrote EXCEPT ![p] = 0]
    /\ store0' = [store0 EXCEPT ![p] = store]
    /\ hist' = [hist EXCEPT ![p] = {}]
    /\ todo' = [todo EXCEPT ![p] = {}]
    /\ pending' = [pending EXCEPT ![p] = {}]
    /\ df' = [df EXCEPT ![p] = {}]
    /\ lastOut' = [lastOut EXCEPT ![p] = "-"]
    /\ payload' = [payload EXCEPT ![p] = NoPayload]
    /\ UNCHANGED <<store, now, listed>>

\* the emptiness test left out
hist_empty_unchecked(bars) == FALSE

\* line 80: hist is None or hist.empty
hist_empty(bars) == bars = {}

\* line 90: only daily frames are written to the table
persists(interval) == interval = "1d"

\* lines 74-103 and, for other intervals, line 111.  float() of a cell raises
\* while to_insert is built (daily) or in _with_indicators (other intervals).
get_prices_fetch(p) ==
    /\ pc[p] = "gp_fetch"
    /\ provCalls' = [provCalls EXCEPT ![p] = @ + 1]
    /\ \E out \in ProviderOutcomes(req[p].start, now) :
        /\ lastOut' = [lastOut EXCEPT ![p] = OutcomeKind(out)]
        /\ IF out.kind = "throws"
           THEN /\ result' = [result EXCEPT ![p] = Raised("ProviderUnavailable")]
                /\ pc' = [pc EXCEPT ![p] = "done"]
                /\ UNCHANGED <<hist, todo>>
           ELSE IF hist_empty(out.bars)
           THEN /\ result' = [result EXCEPT ![p] = Raised("UnknownSymbol")]
                /\ pc' = [pc EXCEPT ![p] = "done"]
                /\ UNCHANGED <<hist, todo>>
           ELSE IF float_rows(out.bars) # "ok"
           THEN /\ hist' = [hist EXCEPT ![p] = out.bars]
                /\ result' = [result EXCEPT ![p] = Raised(float_rows(out.bars))]
                /\ pc' = [pc EXCEPT ![p] = "done"]
                /\ UNCHANGED todo
           ELSE IF persists(req[p].interval)
           THEN /\ hist' = [hist EXCEPT ![p] = out.bars]
                /\ todo' = [todo EXCEPT ![p] =
                                {Row(req[p].symbol, b) : b \in out.bars}]
                /\ pc' = [pc EXCEPT ![p] = "gp_insert"]
                /\ UNCHANGED result
           ELSE /\ hist' = [hist EXCEPT ![p] = out.bars]
                /\ result' = [result EXCEPT ![p] = Returned("provider", out.bars)]
                /\ pc' = [pc EXCEPT ![p] = "done"]
                /\ UNCHANGED todo
    /\ UNCHANGED <<store, now, req, pending, df, readStore, wrote, store0,
                   payload, listed, nreq>>

\* line 106: the existence query for one Price object
exists(st, r) == \E x \in BagToSet(st) : SameKey(x, r)

\* lines 105-108, one iteration: add r to the session unless its key is stored
get_prices_check(p) ==
    /\ pc[p] = "gp_insert"
    /\ todo[p] # {}
    /\ LET r == CHOOSE x \in todo[p] : \A y \in todo[p] : x.ts <= y.ts
       IN  /\ todo' = [todo EXCEPT ![p] = @ \ {r}]
           /\ pending' = [pending EXCEPT ![p] =
                             IF exists(store, r) THEN @ ELSE @ \cup {r}]
    /\ readStore' = [readStore EXCEPT ![p] = TRUE]
    /\ UNCHANGED <<store, now, pc, req, hist, df, result, provCalls, wrote,
                   store0, lastOut, payload, listed, nreq>>

\* lines 109-111: the commit sends the session's INSERTs; a row the table does
\* not admit raises IntegrityError out of get_prices and nothing is written
get_prices_commit(p) ==
    /\ pc[p] = "gp_insert"
    /\ todo[p] = {}
    /\ IF \A r \in pending[p] : uq_prices_symbol_ts(store, r)
       THEN /\ store' = store (+) SetToBag(pending[p])
            /\ wrote' = [wrote EXCEPT ![p] = Cardinality(pending[p])]
            /\ result' = [result EXCEPT ![p] = Returned("provider", hist[p])]
       ELSE /\ result' = [result EXCEPT ![p] = Raised("IntegrityError")]
            /\ UNCHANGED <<store, wrote>>
    /\ pending' = [pending EXCEPT ![p] = {}]
    /\ pc' = [pc EXCEPT ![p] = "done"]
    /\ UNCHANGED <<now, req, hist, todo, df, provCalls, readStore, store0,
                   lastOut, payload, listed, nreq>>

----------------------------------------------------------------------------
(* ml/agent.py: binary64 arithmetic of the recommendation thresholds         *)
(*                                                                           *)
(* A double near c/100 is [c, e]: the number c/100 + e/(25 * 2^58).  In that *)
(* unit c/100 is c * 2^56, and the doubles of a binade are the multiples of  *)
(* its ulp: 800 units in [0.5, 1), 400 in [0.25, 0.5), ... 25 in [1/64, 1/32).*)

Dbl(c, e) == [c |-> c, e |-> e]

UlpUnits(c) ==
    CASE c >= 50 -> 800
      [] c >= 25 -> 400
      [] c >= 13 -> 200
      [] c >= 7  -> 100
      [] c >= 4  -> 50
      [] OTHER   -> 25

RECURSIVE Pow2Mod(_, _)
Pow2Mod(n, m) == IF n = 0 THEN 1 % m ELSE (2 * Pow2Mod(n - 1, m)) % m

\* round to the nearest double of the binade (no operand of the code is a tie)
RoundNearest(x) ==
    LET u == UlpUnits(x.c)
        r == (x.c * Pow2Mod(56, u) + x.e) % u
    IN  IF 2 * r <= u THEN Dbl(x.c, x.e - r) ELSE Dbl(x.c, x.e + (u - r))

Lit(c) == RoundNearest(Dbl(c, 0))                   \* the literal c/100
fadd(x, y) == RoundNearest(Dbl(x.c + y.c, x.e + y.e))
fsub(x, y) == RoundNearest(Dbl(x.c - y.c, x.e - y.e))
fge(x, y) == x.c > y.c \/ (x.c = y.c /\ x.e >= y.e)
fle(x, y) == x.c < y.c \/ (x.c = y.c /\ x.e <= y.e)

\* the doubles next to x
Neighbours(x) == {Dbl(x.c, x.e + k * UlpUnits(x.c)) : k \in {-1, 0, 1}}

----------------------------------------------------------------------------
(* ml/agent.py: _rec_from_prob, _final_payload *)

BuyCents == 58
SellCents == 42
HighAdjCents == 2

Regimes == {"low", "medium", "high"}

buy_threshold(vol_regime) ==
    IF vol_regime = "high" THEN fadd(Lit(BuyCents), Lit(HighAdjCents))
    ELSE Lit(BuyCents)

sell_threshold(vol_regime) ==
    IF vol_regime = "high" THEN fsub(Lit(SellCents), Lit(HighAdjCents))
    ELSE Lit(SellCents)

rec_from_prob(prob, vol_regime) ==
    IF fge(prob, buy_threshold(vol_regime)) THEN "Consider Buy"
    ELSE IF fle(prob, sell_threshold(vol_regime)) THEN "Consider Sell"
    ELSE "Hold"

\* lines 104-114: the recommendation is computed from the unrounded prob_up
final_payload(prob_up, regime) ==
    [prob |-> prob_up, regime |-> regime, rec |-> rec_from_prob(prob_up, regime)]

\* _final_payload on its own: the step of a score that has a fitted
\* probability and a regime and has yet to build its response
final_payload_step(p) ==
    /\ pc[p] = "sc_payload"
    /\ payload' = [payload EXCEPT ![p] = final_payload(@.prob, @.regime)]
    /\ result' = [result EXCEPT ![p] = Returned("score", {})]
    /\ pc' = [pc EXCEPT ![p] = "done"]
    /\ UNCHANGED <<store, now, req, hist, todo, pending, df, provCalls,
                   readStore, wrote, store0, lastOut, listed, nreq>>

----------------------------------------------------------------------------
(* ml/agent.py: _load_ohlc, _fetch_provider_full, _upsert_prices,           *)
(* _ensure_history                                                          *)

load_ohlc(st, symbol) == {r \in BagToSet(st) : r.symbol = Upper(symbol)}

\* the provider's full daily history: its last `listed` days
FullHistory(n, len, v) == {[ts |-> t, val |-> v] : t \in (n - len + 1)..n}

\* the full history with a malformed value in its latest bar
MalformedHistory(n, len, k) ==
    {b \in FullHistory(n, len, 1) : b.ts # n} \cup {[ts |-> n, val |-> k]}

ProviderFullOutcomes(n, len) ==
    {[kind |-> "frame", bars |-> FullHistory(n, len, v)] : v \in 1..MaxVal}
    \cup {[kind |-> "frame", bars |-> MalformedHistory(n, len, k)] :
              k \in IF len > 0 THEN MalformedVals ELSE {}}
    \cup {[kind |-> "throws", bars |-> {}]}

\* lines 52-61: float(x) if pd.notna(x) else None, row by row
values_rows(bars) ==
    float_rows({b \in bars : notna(b.val)})

\* models.py lines 34-37: open, high, low, close are NOT NULL
not_null(bars) == \A b \in bars : notna(b.val)

\* ON CONFLICT (symbol, ts) DO UPDATE: the incoming row replaces the stored one
on_conflict_do_update(st, rows) ==
    SetToBag({x \in BagToSet(st) : \A r \in rows : ~SameKey(x, r)}) (+) SetToBag(rows)

\* lines 63-71: INSERT ... ON CONFLICT (symbol, ts) DO NOTHING, then commit.
\* The chunks of 1000 rows belong to one transaction.
on_conflict_do_nothing(st, rows) ==
    st (+) SetToBag({r \in rows : uq_prices_symbol_ts(st, r)})

MinRowsDay == 200
MinRowsSwing == 260
MinRowsLong == 520

Modes == {"day", "swing", "long"}

min_rows(mode) ==
    CASE mode = "day" -> MinRowsDay
      [] mode = "swing" -> MinRowsSwing
      [] mode = "long" -> MinRowsLong

\* lines 78-80: load; enough rows stored means no fetch
score_begin(p, symbol, mode) ==
    /\ pc[p] \in {"idle", "done"}
    /\ nreq < MaxRequests
    /\ nreq' = nreq + 1
    /\ LET rows == load_ohlc(store, symbol)
       IN  /\ df' = [df EXCEPT ![p] = rows]
           /\ pc' = [pc EXCEPT ![p] =
                        IF Cardinality(rows) >= min_rows(mode) THEN "sc_fit"
                        ELSE "sc_fetch"]
    /\ req' = [req EXCEPT ![p] = [op |-> "score", symbol |-> symbol,
                                  range |-> "-", interval |-> "-",
                                  mode |-> mode, start |-> 0]]
    /\ readStore' = [readStore EXCEPT ![p] = TRUE]
    /\ result' = [result EXCEPT ![p] = NoResult]
    /\ provCalls' = [provCalls EXCEPT ![p] = 0]
    /\ wrote' = [wrote EXCEPT ![p] = 0]
    /\ store0' = [store0 EXCEPT ![p] = store]
    /\ hist' = [hist EXCEPT ![p] = {}]
    /\ todo' = [todo EXCEPT ![p] = {}]
    /\ pending' = [pending EXCEPT ![p] = {}]
    /\ lastOut' = [lastOut EXCEPT ![p] = "-"]
    /\ payload' = [payload EXCEPT ![p] = NoPayload]
    /\ UNCHANGED <<store, now, listed>>

\* lines 81-83 (and 31-43): one fetch of the full history; an exception of the
\* provider leaves _ensure_history and the scorer; nothing fetched keeps df
ensure_history_fetch(p) ==
    /\ pc[p] = "sc_fetch"
    /\ provCalls' = [provCalls EXCEPT ![p] = @ + 1]
    /\ \E out \in ProviderFullOutcomes(now, listed) :
        /\ lastOut' = [lastOut EXCEPT ![p] = OutcomeKind(out)]
        /\ IF out.kind = "throws"
           THEN /\ result' = [result EXCEPT ![p] = Raised("ProviderException")]
                /\ pc' = [pc EXCEPT ![p] = "done"]
                /\ UNCHANGED hist
           ELSE IF hist_empty(out.bars)
           THEN /\ pc' = [pc EXCEPT ![p] = "sc_fit"]
                /\ UNCHANGED <<hist, result>>
           ELSE /\ hist' = [hist EXCEPT ![p] = out.bars]
                /\ pc' = [pc EXCEPT ![p] = "sc_upsert"]
                /\ UNCHANGED result
    /\ UNCHANGED <<store, now, req, todo, pending, df, readStore, wrote, store0,
                   payload, listed, nreq>>

\* line 84 (and 45-71).  An exception of float() while the rows are built,
\* or of the INSERT for a NULL in a NOT NULL column, leaves _upsert_prices,
\* _ensure_history and the scorer before the commit.
upsert_prices(p) ==
    /\ pc[p] = "sc_upsert"
    /\ LET rows == {Row(Upper(req[p].symbol), b) : b \in hist[p]}
           st2  == on_conflict_do_nothing(store, rows)
       IN  IF values_rows(hist[p]) # "ok"
           THEN /\ result' = [result EXCEPT ![p] = Raised(values_rows(hist[p]))]
                /\ pc' = [pc EXCEPT ![p] = "done"]
                /\ UNCHANGED <<store, wrote>>
           ELSE IF ~not_null(hist[p])
           THEN /\ result' = [result EXCEPT ![p] = Raised("IntegrityError")]
                /\ pc' = [pc EXCEPT ![p] = "done"]
                /\ UNCHANGED <<store, wrote>>
           ELSE /\ store' = st2
                /\ wrote' = [wrote EXCEPT ![p] =
                                 BagCardinality(st2) - BagCardinality(store)]
                /\ pc' = [pc EXCEPT ![p] = "sc_reload"]
                /\ UNCHANGED result
    /\ UNCHANGED <<now, req, hist, todo, pending, df, provCalls,
                   readStore, store0, lastOut, payload, listed, nreq>>

\* line 85
ensure_history_reload(p) ==
    /\ pc[p] = "sc_reload"
    /\ df' = [df EXCEPT ![p] = load_ohlc(store, req[p].symbol)]
    /\ pc' = [pc EXCEPT ![p] = "sc_fit"]
    /\ UNCHANGED <<store, now, req, hist, todo, pending, result, provCalls,
                   readStore, wrote, store0, lastOut, payload, listed, nreq>>

----------------------------------------------------------------------------
(* ml/agent.py: score_day, score_swing, score_long.  Rows are numbered from *)
(* 0 in timestamp order.  The histories long enough to pass the first row   *)
(* check hold numbers only (a NaN bar enters the table through get_prices   *)
(* alone, two bars at a time), so a row is dropped by dropna only for an    *)
(* undefined derived column.                                                *)

RawFloorDay == 200
RawFloorSwing == 220
RawFloorLong == 300
MinAfterDay == 180
MinAfterSwing == 200
MinAfterLong == 280
HorizonDay == 1
HorizonSwing == 5
HorizonLong == 60

raw_floor(mode) ==
    CASE mode = "day" -> RawFloorDay
      [] mode = "swing" -> RawFloorSwing
      [] mode = "long" -> RawFloorLong

\* the day threshold used for every horizon
min_after_of_day(mode) == MinAfterDay

min_after(mode) ==
    CASE mode = "day" -> MinAfterDay
      [] mode = "swing" -> MinAfterSwing
      [] mode = "long" -> MinAfterLong

horizon(mode) ==
    CASE mode = "day" -> HorizonDay
      [] mode = "swing" -> HorizonSwing
      [] mode = "long" -> HorizonLong

pct_change_defined(k, i) == i >= k              \* close[i] / close[i-k] - 1
rolling_defined(w, i) == i >= w - 1             \* rolling(w): min_periods = w
rolling_min1_defined(w, i) == i >= 0            \* rolling(w, min_periods=1)
rsi_defined(i) == i >= 1                        \* ewm over diff(): NaN at row 0
ann_vol_defined(w, i) == i >= w                 \* rolling(w).std() of pct_change()

\* (close.shift(-h) > close).astype(int): where the close h rows ahead is
\* missing the comparison is False, and the int column holds 0
label(h, i, n) == IF i + h < n THEN "compared" ELSE "zero"

\* the label left undefined where the future close is missing
label_defined_only_with_future(h, i, n) == i + h < n

\* the label column is of type int and has no undefined entry
label_defined(h, i, n) == label(h, i, n) \in {"compared", "zero"}

\* the label was computed from a bar that exists
label_from_future(h, i, n) == label(h, i, n) = "compared"

features_defined(mode, i) ==
    CASE mode = "day" ->
            /\ pct_change_defined(1, i) /\ pct_change_defined(3, i)
            /\ pct_change_defined(5, i) /\ rsi_defined(i)
            /\ rolling_defined(5, i) /\ rolling_defined(10, i)
            /\ ann_vol_defined(20, i)
      [] mode = "swing" ->
            /\ pct_change_defined(5, i) /\ pct_change_defined(10, i)
            /\ pct_change_defined(20, i) /\ rsi_defined(i)
            /\ rolling_defined(20, i) /\ rolling_defined(50, i)
            /\ ann_vol_defined(20, i)
      [] mode = "long" ->
            /\ pct_change_defined(20, i) /\ pct_change_defined(60, i)
            /\ pct_change_defined(120, i) /\ ann_vol_defined(60, i)
            /\ rolling_defined(50, i) /\ rolling_defined(200, i)
            /\ rolling_min1_defined(200, i)

\* d.dropna(): the rows of an n-row frame that are kept
dropna(mode, n) ==
    {i \in 0..(n - 1) : features_defined(mode, i) /\ label_defined(horizon(mode), i, n)}

\* X[:-1], y[:-1]: the rows the model is fitted on are the kept rows but the
\* last one, which is the row the probability is predicted for
fit_rows(mode, n) ==
    LET d == dropna(mode, n)
    IN  {i \in d : \E j \in d : j > i}

FitProbs == {Lit(40), Lit(50), Lit(60)}

\* lines 130-155 of score_day and their like: both row checks, the fit (its
\* probability and the regime of the volatility are not computed here), and
\* the payload
score_fit(p) ==
    /\ pc[p] = "sc_fit"
    /\ LET mode == req[p].mode
           n    == Cardinality(df[p])
       IN  IF n < raw_floor(mode) \/ Cardinality(dropna(mode, n)) < min_after(mode)
           THEN /\ result' = [result EXCEPT ![p] = Raised("InsufficientData")]
                /\ pc' = [pc EXCEPT ![p] = "done"]
                /\ UNCHANGED payload
           ELSE /\ \E prob \in FitProbs, g \in Regimes :
                     payload' = [payload EXCEPT ![p] = final_payload(prob, g)]
                /\ result' = [result EXCEPT ![p] = Returned("score", {})]
                /\ pc' = [pc EXCEPT ![p] = "done"]
    /\ UNCHANGED <<store, now, req, hist, todo, pending, df, provCalls,
                   readStore, wrote, store0, lastOut, listed, nreq>>

----------------------------------------------------------------------------
(* The clock *)

Tick ==
    /\ now < Now0 + MaxTicks
    /\ now' = now + 1
    /\ UNCHANGED <<store, pc, req, hist, todo, pending, df, result, provCalls,
                   readStore, wrote, store0, lastOut, payload, listed, nreq>>

----------------------------------------------------------------------------

NoReq ==
    [op |-> "-", symbol |-> "-", range |-> "-", interval |-> "-", mode |-> "-",
     start |-> 0]

Init ==
    /\ store = EmptyBag
    /\ now = Now0
    /\ pc = [p \in Procs |-> "idle"]
    /\ req = [p \in Procs |-> NoReq]
    /\ hist = [p \in Procs |-> {}]
    /\ todo = [p \in Procs |-> {}]
    /\ pending = [p \in Procs |-> {}]
    /\ df = [p \in Procs |-> {}]
    /\ result = [p \in Procs |-> NoResult]
    /\ provCalls = [p \in Procs |-> 0]
    /\ readStore = [p \in Procs |-> FALSE]
    /\ wrote = [p \in Procs |-> 0]
    /\ store0 = [p \in Procs |-> EmptyBag]
    /\ lastOut = [p \in Procs |-> "-"]
    /\ payload = [p \in Procs |-> NoPayload]
    /\ listed \in SmallListings
    /\ nreq = 0

\* The handlers, for request slots P, range tokens R, intervals I and modes M
Handlers(P, R, I, M) ==
    \/ \E p \in P, s \in RawSymbols, r \in R, i \in I : get_prices_begin(p, s, r, i)
    \/ \E p \in P : get_prices_fetch(p)
    \/ \E p \in P : get_prices_check(p)
    \/ \E p \in P : get_prices_commit(p)
    \/ \E p \in P, s \in RawSymbols, m \in M : score_begin(p, s, m)
    \/ \E p \in P : ensure_history_fetch(p)
    \/ \E p \in P : upsert_prices(p)
    \/ \E p \in P : ensure_history_reload(p)
    \/ \E p \in P : score_fit(p)

\* Two requests at a time, within one day
Next == Handlers(Procs, ConcurrentRanges, ConcurrentIntervals, {"day"})

Spec == Init /\ [][Next]_vars

\* One request after another, while the clock advances
NextSeq == Handlers({"r1"}, RequestRanges, Intervals, {"swing"}) \/ Tick

SpecSeq == Init /\ [][NextSeq]_vars

\* The scorer alone, over a table that holds a history and a provider that
\* lists one
StoredHistory(len) == SetToBag({Row("AAPL", b) : b \in FullHistory(Now0, len, 1)})

InitScore ==
    /\ listed \in HistorySizes
    /\ \E len \in StoredSizes : len <= listed /\ store = StoredHistory(len)
    /\ now = Now0
    /\ pc = [p \in Procs |-> "idle"]
    /\ req = [p \in Procs |-> NoReq]
    /\ hist = [p \in Procs |-> {}]
    /\ todo = [p \in Procs |-> {}]
    /\ pending = [p \in Procs |-> {}]
    /\ df = [p \in Procs |-> {}]
    /\ result = [p \in Procs |-> NoResult]
    /\ provCalls = [p \in Procs |-> 0]
    /\ readStore = [p \in Procs |-> FALSE]
    /\ wrote = [p \in Procs |-> 0]
    /\ store0 = [p \in Procs |-> EmptyBag]
    /\ lastOut = [p \in Procs |-> "-"]
    /\ payload = [p \in Procs |-> NoPayload]
    /\ nreq = 0

NextScore ==
    \/ \E s \in RawSymbols, m \in Modes : score_begin("r1", s, m)
    \/ ensure_history_fetch("r1")
    \/ upsert_prices("r1")
    \/ ensure_history_reload("r1")
    \/ score_fit("r1")

SpecScore == InitScore /\ [][NextScore]_vars

\* _final_payload alone, over probabilities around the thresholds
ProbInputs == UNION {Neighbours(Lit(c)) : c \in ProbCents}

InitRec ==
    /\ store = EmptyBag
    /\ now = Now0
    /\ pc = [p \in Procs |-> IF p = "r1" THEN "sc_payload" ELSE "idle"]
    /\ req = [p \in Procs |-> NoReq]
    /\ hist = [p \in Procs |-> {}]
    /\ todo = [p \in Procs |-> {}]
    /\ pending = [p \in Procs |-> {}]
    /\ df = [p \in Procs |-> {}]
    /\ result = [p \in Procs |-> NoResult]
    /\ provCalls = [p \in Procs |-> 0]
    /\ readStore = [p \in Procs |-> FALSE]
    /\ wrote = [p \in Procs |-> 0]
    /\ store0 = [p \in Procs |-> EmptyBag]
    /\ lastOut = [p \in Procs |-> "-"]
    /\ \E x \in ProbInputs, g \in Regimes :
          payload = [p \in Procs |->
                        IF p = "r1" THEN [prob |-> x, regime |-> g, rec |-> "-"]
                        ELSE NoPayload]
    /\ listed = 0
    /\ nreq = 0

NextRec == final_payload_step("r1")

SpecRec == InitRec /\ [][NextRec]_vars

----------------------------------------------------------------------------
(* Properties *)

Writer(p) ==
    \/ req[p].op = "score"
    \/ req[p].op = "get_prices" /\ persists(req[p].interval)

\* the call of slot p fetched a non-empty frame and is past its write
WriteDone(p) ==
    /\ Writer(p)
    /\ lastOut[p] = "frame"
    /\ pc[p] \in {"done", "sc_reload", "sc_fit"}

StoredSymbol(p) == Upper(req[p].symbol)

\* C1: the table never holds two rows with the same (symbol, ts), whatever
\* the interleaving of get_prices and _upsert_prices writes.
C1_UniquePerKey ==
    \A r \in BagToSet(store) : RowCount(store, r.symbol, r.ts) = 1

\* two calls have written the same bar and the table holds it once
C1_Witness ==
    \E p, q \in Procs :
        /\ p # q /\ WriteDone(p) /\ WriteDone(q)
        /\ \E b \in hist[p], c \in hist[q] :
              b.ts = c.ts /\ RowCount(store, StoredSymbol(p), b.ts) = 1

\* C2: two calls that write the same bar both complete: get_prices returns
\* without an error, and every bar either call fetched is in the table.
C2_DuplicateAbsorbed ==
    \A p \in Procs :
        WriteDone(p) =>
            /\ req[p].op = "get_prices" => result[p].status = "ok"
            /\ \A b \in hist[p] : RowCount(store, StoredSymbol(p), b.ts) >= 1

\* C3: a stored row stays in the table with the values it was written with.
C3_StoredBarsImmutable ==
    [][\A r \in BagToSet(store) :
          r \in BagToSet(store') /\ CopiesIn(r, store') = CopiesIn(r, store)]_vars

\* a call has written a frame whose value for a stored key differs
C3_Witness ==
    \E p \in Procs :
        /\ WriteDone(p)
        /\ \E b \in hist[p], r \in BagToSet(store) :
              r.symbol = StoredSymbol(p) /\ r.ts = b.ts /\ r.val # b.val

\* rows of table st for the key range a daily request reads
RowsSince(st, sym, start) == {r \in BagToSet(st) : r.symbol = sym /\ r.ts >= start}

\* table st holds a bar of sym at most two days after start
CoveredFrom(st, sym, start) ==
    \E r \in BagToSet(st) :
        r.symbol = sym /\ r.ts >= start /\ r.ts <= start + CacheToleranceDays

\* C4: a daily get_prices whose table holds a bar within 2 days of start is
\* answered from the table: the stored series with source "db", no provider
\* call, no write.
C4_CacheHit ==
    \A p \in Procs :
        ( /\ req[p].op = "get_prices"
          /\ req[p].interval = "1d"
          /\ CoveredFrom(store0[p], req[p].symbol, req[p].start) )
        => /\ pc[p] = "done"
           /\ result[p] = Returned("db",
                  Bars(RowsSince(store0[p], req[p].symbol, req[p].start)))
           /\ provCalls[p] = 0
           /\ wrote[p] = 0
           /\ store = store0[p]

\* a daily request was answered from a table whose earliest bar in range
\* lies after start
C4_Witness ==
    \E p \in Procs :
        /\ req[p].op = "get_prices" /\ pc[p] = "done"
        /\ result[p].source = "db"
        /\ \A r \in RowsSince(store0[p], req[p].symbol, req[p].start) :
              r.ts > req[p].start

\* C5: a daily get_prices that found no bars of the symbol calls the provider
\* exactly once, and a non-empty answer is returned with source "provider".
C5_CacheMiss ==
    \A p \in Procs :
        ( /\ req[p].op = "get_prices"
          /\ req[p].interval = "1d"
          /\ pc[p] = "done"
          /\ \A r \in BagToSet(store0[p]) : r.symbol # req[p].symbol )
        => /\ provCalls[p] = 1
           /\ lastOut[p] = "frame" => result[p] = Returned("provider", hist[p])

\* C6: an empty answer of the provider makes get_prices raise UnknownSymbol,
\* a throwing fetch ProviderUnavailable, and the call writes nothing.
C6_UnknownSymbol ==
    \A p \in Procs :
        req[p].op = "get_prices" =>
            /\ lastOut[p] = "empty" =>
                  /\ pc[p] = "done"
                  /\ result[p] = Raised("UnknownSymbol")
                  /\ wrote[p] = 0
                  /\ store = store0[p]
            /\ lastOut[p] = "throws" => result[p] = Raised("ProviderUnavailable")

\* the provider answered nothing while the table held bars
C6_Witness ==
    \E p \in Procs :
        /\ req[p].op = "get_prices" /\ lastOut[p] = "empty"
        /\ store0[p] # EmptyBag
        /\ result[p].error = "UnknownSymbol"

\* C7: a get_prices for "1wk" or "1mo" never queries or writes the table and
\* is answered by the provider.
C7_NonDailyBypassesStore ==
    \A p \in Procs :
        (req[p].op = "get_prices" /\ req[p].interval # "1d") =>
            /\ ~readStore[p]
            /\ wrote[p] = 0
            /\ store = store0[p]
            /\ pc[p] \in {"gp_fetch", "done"}
            /\ pc[p] = "done" => provCalls[p] = 1 /\ result[p].source # "db"

\* a weekly or monthly request went to the provider although the table
\* covered its range
C7_Witness ==
    \E p \in Procs :
        /\ req[p].op = "get_prices" /\ req[p].interval # "1d"
        /\ pc[p] = "done" /\ result[p].source = "provider"
        /\ CoveredFrom(store0[p], req[p].symbol, req[p].start)

Scored(p) == req[p].op = "score" /\ pc[p] = "done" /\ result[p].source = "score"

\* the exceptions that leave the scorer from within _ensure_history
EnsureHistoryErrors == {"ProviderException", "ValueError", "IntegrityError"}

\* the score of slot p went through _ensure_history and ended
ScoreEnded(p) ==
    req[p].op = "score" /\ pc[p] = "done" /\ result[p].error \notin EnsureHistoryErrors

InsufficientData(p) == result[p] = Raised("InsufficientData")

\* C8 as stated: a history shorter than the horizon's minimum row
\* requirement (day 200, swing 260, long 520) fails with InsufficientData.
C8_Original ==
    \A p \in Procs :
        (ScoreEnded(p) /\ Cardinality(df[p]) < min_rows(req[p].mode))
            => InsufficientData(p)

\* C8 amended: a history shorter than the floor the scorer checks (day 200,
\* swing 220, long 300), or one that keeps fewer than 180, 200, 280 rows after
\* dropna, fails with InsufficientData.
C8_Amended ==
    \A p \in Procs :
        ScoreEnded(p) =>
            LET n    == Cardinality(df[p])
                mode == req[p].mode
                kept == Cardinality(dropna(mode, n))
            IN  /\ (mode = "day" /\ (n < RawFloorDay \/ kept < MinAfterDay))
                      => InsufficientData(p)
                /\ (mode = "swing" /\ (n < RawFloorSwing \/ kept < MinAfterSwing))
                      => InsufficientData(p)
                /\ (mode = "long" /\ (n < RawFloorLong \/ kept < MinAfterLong))
                      => InsufficientData(p)

\* 150 rows and horizon swing
C8_Witness ==
    \E p \in Procs :
        /\ ScoreEnded(p) /\ req[p].mode = "swing"
        /\ Cardinality(df[p]) = 150
        /\ InsufficientData(p)

\* C9: score_day over 200 or more bars does not fail with InsufficientData,
\* and at least 180 rows are kept by dropna.
C9_DayAt200 ==
    \A p \in Procs :
        (ScoreEnded(p) /\ req[p].mode = "day" /\ Cardinality(df[p]) >= RawFloorDay)
            => /\ ~InsufficientData(p)
               /\ Cardinality(dropna("day", Cardinality(df[p]))) >= MinAfterDay

\* exactly 200 bars scored for the day horizon
C9_Witness ==
    \E p \in Procs :
        Scored(p) /\ req[p].mode = "day" /\ Cardinality(df[p]) = 200

\* the thresholds the recommendation is stated with
ClaimedBuy(regime) == IF regime = "high" THEN Lit(60) ELSE Lit(BuyCents)
ClaimedSell(regime) == IF regime = "high" THEN Lit(40) ELSE Lit(SellCents)

ClaimedRec(prob, regime) ==
    IF fge(prob, ClaimedBuy(regime)) THEN "Consider Buy"
    ELSE IF fle(prob, ClaimedSell(regime)) THEN "Consider Sell"
    ELSE "Hold"

\* C10: the recommendation is Consider Buy at or above the buy threshold,
\* Consider Sell at or below the sell threshold and Hold between, with
\* thresholds 0.58/0.42 (low, medium) and 0.60/0.40 (high), all inclusive.
C10_Recommendation ==
    \A p \in Procs :
        payload[p].rec # "-" =>
            payload[p].rec = ClaimedRec(payload[p].prob, payload[p].regime)

\* C11: in a score that reaches the fit, every row the model is fitted on
\* carries a label that was compared with the close h rows ahead (h = 1, 5,
\* 60): the rows whose bar h steps ahead does not exist are not among them.
C11_NoLabelWithoutFuture ==
    \A p \in Procs :
        Scored(p) =>
            LET n    == Cardinality(df[p])
                mode == req[p].mode
            IN  \A i \in fit_rows(mode, n) : label_from_future(horizon(mode), i, n)

\* the call of slot p was answered a frame with a malformed bar and has ended
MalformedDone(p) == Writer(p) /\ lastOut[p] = "malformed" /\ pc[p] = "done"

\* C12: a daily response with a bar whose open/high/low/close is missing or
\* not numeric does not fail the request (get_prices or the scorer's upsert):
\* that bar is not stored and every well-formed bar of the response is.
C12_MalformedBarSkipped ==
    \A p \in Procs :
        MalformedDone(p) =>
            /\ result[p].error \notin {"TypeError", "ValueError", "IntegrityError"}
            /\ \A b \in hist[p] :
                  IF b.val \in MalformedVals
                  THEN Row(StoredSymbol(p), b) \notin BagToSet(store)
                  ELSE RowCount(store, StoredSymbol(p), b.ts) >= 1

\* _ensure_history of slot p has returned or raised
EnsureHistoryEnded(p) == req[p].op = "score" /\ pc[p] \in {"sc_fit", "done"}

\* the rows of the symbol of slot p in table st
SymbolRows(st, p) == {r \in BagToSet(st) : r.symbol = StoredSymbol(p)}

\* table st holds every bar of the frame slot p fetched
Upserted(st, p) ==
    \A b \in hist[p] : \E r \in SymbolRows(st, p) : r.ts = b.ts

\* C13: _ensure_history with at least minRows bars stored never calls the
\* provider and leaves the table alone; with fewer it fetches the full
\* history exactly once, and either upserts a non-empty answer and returns
\* the table reloaded after the upsert, or, the answer being empty, leaves
\* the table alone and returns the rows it had loaded.
C13_EnsureHistory ==
    \A p \in Procs :
        EnsureHistoryEnded(p) =>
            LET loaded == SymbolRows(store0[p], p)
            IN  IF Cardinality(loaded) >= min_rows(req[p].mode)
                THEN provCalls[p] = 0 /\ store = store0[p] /\ df[p] = loaded
                ELSE /\ provCalls[p] = 1
                     /\ lastOut[p] = "empty" => store = store0[p] /\ df[p] = loaded
                     /\ lastOut[p] \in {"frame", "malformed"} =>
                           /\ result[p].error \notin {"ValueError", "IntegrityError"}
                           /\ Upserted(store, p)
                           /\ df[p] = SymbolRows(store, p)

\* the daily get_prices of slot p missed the table, was answered a non-empty
\* frame and has committed it
PersistedMiss(p) ==
    /\ req[p].op = "get_prices" /\ req[p].interval = "1d"
    /\ pc[p] = "done" /\ provCalls[p] = 1
    /\ result[p].status = "ok" /\ result[p].source = "provider"

\* this step begins, in slot p and on the same day, the call slot p has ended
RepeatedCall(p) ==
    /\ pc[p] = "done" /\ nreq' = nreq + 1
    /\ provCalls[p] = 1 /\ provCalls'[p] = 0
    /\ req'[p] = req[p]

\* the call slot p begins in this step is answered by the table
ServedFromStore(p) ==
    /\ pc'[p] = "done"
    /\ result'[p].status = "ok" /\ result'[p].source = "db"
    /\ provCalls'[p] = 0

\* the frame slot p fetched has a bar at most two days after start
FetchedNearStart(p) ==
    \E b \in hist[p] : b.ts <= req[p].start + CacheToleranceDays

\* C14 as stated: a daily get_prices that missed the table and persisted a
\* non-empty answer, repeated at once with the same symbol, range and
\* interval, is answered by the table without a provider call, whatever the
\* range token and whatever the provider answered.
C14_Original ==
    [][\A p \in Procs :
          (PersistedMiss(p) /\ RepeatedCall(p)) => ServedFromStore(p)]_vars

\* C14 amended: the repeated call is answered by the table without a
\* provider call exactly when the persisted answer has a bar at most two
\* days after start; otherwise it goes to the provider again.
C14_Amended ==
    [][\A p \in Procs :
          (PersistedMiss(p) /\ RepeatedCall(p)) =>
              (ServedFromStore(p) <=> FetchedNearStart(p))]_vars

\* a second call for range "max" is answered by a table whose earliest bar,
\* persisted by the first, lies two days after 1980-01-01
C14_Witness ==
    \E p \in Procs :
        /\ req[p].op = "get_prices" /\ req[p].range = "max" /\ pc[p] = "done"
        /\ nreq = 2 /\ result[p].source = "db" /\ provCalls[p] = 0
        /\ \A r \in RowsSince(store0[p], req[p].symbol, req[p].start) :
              r.ts >= req[p].start + CacheToleranceDays

====
